---- MODULE Spec2Model ----
(***************************************************************************)
(* A state-machine model of the data-management layer of src/tql.py:       *)
(* ConfigManager (config.json, projects.json, users.db), DatabaseManager   *)
(* (the MySQL session), QueryHistoryManager (query_history.json) and the   *)
(* start-up / login flow of MySQLDatabaseManager, alone and with several   *)
(* processes on one users.db, and the handlers of the query tab.           *)
(*                                                                         *)
(* The persisted files are the program's durable state: they outlive a     *)
(* run, so an initial state draws each file from the contents earlier runs *)
(* can have left behind.  The visual layer (Tk widgets, message boxes) is  *)
(* not modelled; a modal dialog is modelled by the calls its buttons make. *)
(***************************************************************************)
EXTENDS Integers, Sequences, FiniteSets, TLC

VARIABLES
    configFile,       \* ~/.mysql_manager/config.json
    config,           \* MySQLDatabaseManager.config, the Config in memory
    projectsFile,     \* ~/.mysql_manager/projects.json
    historyFile,      \* ~/.mysql_manager/query_history.json
    favoritesFile,    \* ~/.mysql_manager/favorites.json
    users,            \* the users table of ~/.mysql_manager/users.db
    current_user,     \* MySQLDatabaseManager.current_user
    pc,               \* where the application is: not started, in the login
                      \* dialog, in the main interface, or ended
    enrolled,         \* the password each account was created with (an
                      \* observer, not program state)
    procs,            \* the application processes started side by side on
                      \* one users.db: each one's position and what it read
    connection,       \* DatabaseManager.connection
    current_database, \* DatabaseManager.current_database
    openConns,        \* server connections opened and not yet closed
    lostConns,        \* server connections that are no longer alive
    nextConn,         \* the next connection the server hands out
    sent,             \* statements sent to the server so far
    commits,          \* commits issued so far
    schemas,          \* the databases of the MySQL server and their tables
    session,          \* "never" connected, "connected", or "disconnected"
                      \* since the last successful connect (an observer)
    clock,            \* datetime.now(), in ticks
    calls,            \* number of operations performed in this behaviour
    lastCall          \* the last operation called, its arguments and what it
                      \* found and returned (an observer, not program state)

configVars == <<configFile, config>>
loginVars == <<users, current_user, pc, enrolled, procs>>
sessionVars == <<connection, current_database, openConns, lostConns, nextConn,
                 sent, commits, schemas, session>>

vars == <<configFile, config, projectsFile, historyFile, favoritesFile, clock,
          calls, lastCall, loginVars, sessionVars>>

(***************************************************************************)
(* Bounds of the model.                                                    *)
(***************************************************************************)
MaxCalls == 3
MaxConnections == 3
MaxStatements == 4

\* Python's None, where it stands beside strings (the `database` argument).
None == "<None>"

\* self.connection = None
NoConnection == 0

\* The credential store and the session of a run that has not started.
LoginIdle ==
    /\ users = <<>>
    /\ current_user = None
    /\ pc = "not_started"
    /\ enrolled = <<>>
    /\ procs = <<>>

\* A MySQL server that holds no database yet.
NoSchemas == <<>>

\* DatabaseManager.__init__
SessionIdle ==
    /\ connection = NoConnection
    /\ current_database = None
    /\ openConns = {}
    /\ lostConns = {}
    /\ nextConn = 1
    /\ sent = 0
    /\ commits = 0
    /\ session = "never"

(***************************************************************************)
(* A JSON list file (query_history.json, projects.json).  `exists` is      *)
(* Path.exists(); `parses` is whether json.load accepts the text; `doc` is *)
(* the list json.load returns.  json.dump / json.load of a list of dicts   *)
(* whose values are str, int and None give back an equal list, so the      *)
(* entries are kept as written.  `shape` tells the ways a file can fail    *)
(* to be a list apart: "text" that json.load rejects, "bytes" that cannot  *)
(* be decoded as text, and a JSON "value" that is no list.                 *)
(***************************************************************************)
AbsentFile ==
    [exists |-> FALSE, parses |-> FALSE, shape |-> "none", doc |-> <<>>]
GarbageFile ==
    [exists |-> TRUE, parses |-> FALSE, shape |-> "text", doc |-> <<>>]
ListFile(list) ==
    [exists |-> TRUE, parses |-> TRUE, shape |-> "list", doc |-> list]

\* list[:n]
Take(list, n) == SubSeq(list, 1, IF Len(list) < n THEN Len(list) ELSE n)

(***************************************************************************)
(* Python values and JSON documents.  A value is a record [t, v]: t is the *)
(* type and v the payload, a string for a scalar and a function from keys  *)
(* to values for a dict / object.  json.dump and json.load are the maps    *)
(* between the two, type by type.                                          *)
(***************************************************************************)
PyNone == [t |-> "NoneType", v |-> "None"]
PyStr(s) == [t |-> "str", v |-> s]
PyInt(digits) == [t |-> "int", v |-> digits]
PyBool(b) == [t |-> "bool", v |-> IF b THEN "True" ELSE "False"]
PyList == [t |-> "list", v |-> "[]"]
PyDict(items) == [t |-> "dict", v |-> items]

JsonNull == [t |-> "null", v |-> "null"]
JsonString(s) == [t |-> "string", v |-> s]
JsonNumber(digits) == [t |-> "number", v |-> digits]
JsonBool(b) == [t |-> "boolean", v |-> IF b THEN "true" ELSE "false"]
JsonArray == [t |-> "array", v |-> "[]"]
JsonObject(members) == [t |-> "object", v |-> members]

RECURSIVE json_dump(_)
\* json.dump(obj, f, indent=4): the document written for a Python value.
json_dump(obj) ==
    CASE obj.t = "dict" ->
             JsonObject([k \in DOMAIN obj.v |-> json_dump(obj.v[k])])
      [] obj.t = "str" -> JsonString(obj.v)
      [] obj.t = "int" -> JsonNumber(obj.v)
      [] obj.t = "bool" -> JsonBool(obj.v = "True")
      [] obj.t = "NoneType" -> JsonNull
      [] obj.t = "list" -> JsonArray

RECURSIVE json_load(_)
\* json.load(f): the Python value read from a document.
json_load(doc) ==
    CASE doc.t = "object" ->
             PyDict([k \in DOMAIN doc.v |-> json_load(doc.v[k])])
      [] doc.t = "string" -> PyStr(doc.v)
      [] doc.t = "number" -> PyInt(doc.v)
      [] doc.t = "boolean" -> PyBool(doc.v = "true")
      [] doc.t = "null" -> PyNone
      [] doc.t = "array" -> PyList

\* A JSON file: absent, text json.load rejects (JSONDecodeError), or a document.
NoFile == [exists |-> FALSE, parses |-> FALSE, doc |-> JsonNull]
CorruptFile == [exists |-> TRUE, parses |-> FALSE, doc |-> JsonNull]
JsonFile(doc) == [exists |-> TRUE, parses |-> TRUE, doc |-> doc]

(***************************************************************************)
(* ConfigManager: config.json                                              *)
(***************************************************************************)
\* ConfigManager.load_config: default_config
default_config ==
    PyDict([mysql |-> PyDict([host |-> PyStr("localhost"),
                              port |-> PyInt("3306"),
                              username |-> PyStr("root"),
                              password |-> PyStr("")]),
            appearance |-> PyDict([theme |-> PyStr("Light"),
                                   font_size |-> PyInt("10")]),
            editor |-> PyDict([auto_complete |-> PyBool(TRUE),
                               syntax_highlighting |-> PyBool(TRUE)]),
            current_user |-> PyNone])

\* ConfigManager.save_config: the file after save_config(cfg).
save_config(cfg) == JsonFile(json_dump(cfg))

\* A slip: a section found in the file is taken as it is, so the keys it
\* lacks are not filled in.
validated_config_whole_section(loaded) ==
    LET sections == {s \in DOMAIN default_config.v :
                        default_config.v[s].t = "dict"}
    IN  PyDict([s \in sections |->
                  IF s \in DOMAIN loaded.v /\ loaded.v[s].t = "dict"
                  THEN loaded.v[s] ELSE default_config.v[s]])

\* The validation loop as it would be with values type-checked: a stored
\* value of another type than the default's gives way to the default.
validated_config_type_checked(loaded) ==
    LET sections == {s \in DOMAIN default_config.v :
                        default_config.v[s].t = "dict"}
        existing_section(s) ==
            IF s \in DOMAIN loaded.v /\ loaded.v[s].t = "dict"
            THEN loaded.v[s].v ELSE <<>>
    IN  PyDict([s \in sections |->
                  PyDict([key \in DOMAIN default_config.v[s].v |->
                            IF /\ key \in DOMAIN existing_section(s)
                               /\ existing_section(s)[key].t
                                      = default_config.v[s].v[key].t
                            THEN existing_section(s)[key]
                            ELSE default_config.v[s].v[key]])])

\* The dict the validation loop of load_config builds from a loaded dict.
validated_config(loaded) ==
    LET sections == {s \in DOMAIN default_config.v :
                        default_config.v[s].t = "dict"}
        existing_section(s) ==
            IF s \in DOMAIN loaded.v /\ loaded.v[s].t = "dict"
            THEN loaded.v[s].v ELSE <<>>
    IN  PyDict([s \in sections |->
                  PyDict([key \in DOMAIN default_config.v[s].v |->
                            IF key \in DOMAIN existing_section(s)
                            THEN existing_section(s)[key]
                            ELSE default_config.v[s].v[key]])])

\* A slip: the handler forgets ValueError, which the isinstance check raises.
ExceptClauseNoValueError == {"JSONDecodeError", "FileNotFoundError"}

\* ConfigManager.load_config: except (json.JSONDecodeError,
\* FileNotFoundError, ValueError)
ExceptClause == {"JSONDecodeError", "FileNotFoundError", "ValueError"}

\* ConfigManager.load_config on a given file: what it returns, what it leaves
\* on disk, and the exception that reaches the caller ("" when none).
load_config(file) ==
    IF ~file.exists
    THEN [returned |-> default_config, file |-> save_config(default_config),
          raised |-> ""]
    ELSE LET exc == IF ~file.parses THEN "JSONDecodeError"
                    ELSE IF json_load(file.doc).t # "dict" THEN "ValueError"
                    ELSE ""
         IN  IF exc = ""
             THEN [returned |-> validated_config(json_load(file.doc)),
                   file |-> file, raised |-> ""]
             ELSE IF exc \in ExceptClause
             THEN [returned |-> default_config,
                   file |-> save_config(default_config), raised |-> ""]
             ELSE [returned |-> PyNone, file |-> file, raised |-> exc]

\* Before MySQLDatabaseManager.__init__ has assigned self.config.
NotLoaded == [t |-> "unset", v |-> "unset"]

(***************************************************************************)
(* The contents config.json can have when load_config runs.                *)
(***************************************************************************)
\* Values other than the defaults, as save_preferences stores them.
other_config ==
    PyDict([mysql |-> PyDict([host |-> PyStr("db.example"),
                              port |-> PyInt("3307"),
                              username |-> PyStr("app"),
                              password |-> PyStr("secret")]),
            appearance |-> PyDict([theme |-> PyStr("Dark"),
                                   font_size |-> PyInt("12")]),
            editor |-> PyDict([auto_complete |-> PyBool(FALSE),
                               syntax_highlighting |-> PyBool(FALSE)]),
            current_user |-> PyStr("alice")])

Restrict(f, keys) == [k \in keys |-> f[k]]

\* What a file can hold under a section name: an object with any subset of
\* the section's keys, with a key the schema does not know, with values of a
\* type the key does not take, or something that is not an object.
SectionDocs(s) ==
    LET stored == json_dump(other_config.v[s]).v
    IN  {JsonObject(Restrict(stored, keys)) : keys \in SUBSET DOMAIN stored}
        \cup {JsonObject(("legacy" :> JsonNumber("1")) @@ stored),
              JsonObject([k \in DOMAIN stored |-> JsonNull]),
              JsonString("oops"), JsonArray}

TopLevelKeys == {"mysql", "appearance", "editor", "current_user", "plugins"}

ConfigObjects ==
    {JsonObject(Restrict([mysql |-> m, appearance |-> a, editor |-> e,
                          current_user |-> c, plugins |-> JsonObject(<<>>)],
                         present)) :
        m \in SectionDocs("mysql"), a \in SectionDocs("appearance"),
        e \in SectionDocs("editor"),
        c \in {JsonNull, JsonString("alice")},
        present \in SUBSET TopLevelKeys}

ConfigFiles ==
    {NoFile, CorruptFile}
    \cup {JsonFile(d) : d \in {JsonArray, JsonNull, JsonNumber("7"),
                               JsonString("config")}}
    \cup {JsonFile(d) : d \in ConfigObjects}

\* MySQLDatabaseManager.__init__: self.config = self.config_manager.load_config()
LoadConfig ==
    LET r == load_config(configFile)
    IN  /\ calls < MaxCalls
        /\ config' = (IF r.raised = "" THEN r.returned ELSE NotLoaded)
        /\ configFile' = r.file
        /\ calls' = calls + 1
        /\ lastCall' = [op |-> "load_config", before |-> configFile,
                        raised |-> r.raised]
        /\ UNCHANGED <<projectsFile, historyFile, clock, loginVars, sessionVars,
                   favoritesFile>>

\* show_preferences / save_preferences with the texts typed into the form.
\* int() of a port text that is no number raises after the host was stored,
\* before anything is saved.
SavePreferences(host, port, theme) ==
    /\ calls < MaxCalls
    /\ config # NotLoaded
    /\ IF port = "abc"
       THEN /\ config' = [config EXCEPT !.v["mysql"].v["host"] = PyStr(host)]
            /\ UNCHANGED configFile
       ELSE /\ config' = [config EXCEPT
                !.v["mysql"].v["host"] = PyStr(host),
                !.v["mysql"].v["port"] = PyInt(port),
                !.v["mysql"].v["username"] = PyStr("app"),
                !.v["mysql"].v["password"] = PyStr("secret"),
                !.v["appearance"].v["theme"] = PyStr(theme),
                !.v["appearance"].v["font_size"] = PyInt("12"),
                !.v["editor"].v["auto_complete"] = PyBool(FALSE),
                !.v["editor"].v["syntax_highlighting"] = PyBool(TRUE)]
            /\ configFile' = save_config(config')
    /\ calls' = calls + 1
    /\ lastCall' = [op |-> "save_preferences"]
    /\ UNCHANGED <<projectsFile, historyFile, clock, loginVars, sessionVars,
                   favoritesFile>>

InitConfig ==
    /\ configFile \in ConfigFiles
    /\ config = NotLoaded
    /\ projectsFile = AbsentFile
    /\ historyFile = AbsentFile
    /\ clock = 0
    /\ calls = 0
    /\ lastCall = [op |-> "none"]
    /\ LoginIdle
    /\ SessionIdle
    /\ favoritesFile = AbsentFile
    /\ schemas = NoSchemas

NextConfig ==
    \/ LoadConfig
    \/ \E host \in {"localhost", "db.example"}, port \in {"3307", "abc"},
          theme \in {"Light", "Blue"} :
           SavePreferences(host, port, theme)

SpecConfig == InitConfig /\ [][NextConfig]_vars

\* The sections and keys of the default Config, as the specification lists
\* them.
SchemaKeys(s) ==
    CASE s = "mysql" -> {"host", "port", "username", "password"}
      [] s = "appearance" -> {"theme", "font_size"}
      [] s = "editor" -> {"auto_complete", "syntax_highlighting"}

SchemaSections == {"mysql", "appearance", "editor"}

HasSection(cfg, s) ==
    /\ s \in DOMAIN cfg.v
    /\ cfg.v[s].t = "dict"
    /\ SchemaKeys(s) \subseteq DOMAIN cfg.v[s].v

\* C4: whatever config.json holds, the Config load_config returns has every
\* section with every key, and current_user.
C4_AllKeysPresent ==
    lastCall.op = "load_config"
    => /\ config.t = "dict"
       /\ \A s \in SchemaSections : HasSection(config, s)
       /\ "current_user" \in DOMAIN config.v

\* The file load_config found was there and was unparsable or no object.
FoundCorrupt(file) ==
    /\ file.exists
    /\ ~file.parses \/ file.doc.t # "object"

StoredOrDefault(doc, s, key) ==
    IF /\ s \in DOMAIN doc.v
       /\ doc.v[s].t = "object"
       /\ key \in DOMAIN doc.v[s].v
    THEN json_load(doc.v[s].v[key])
    ELSE default_config.v[s].v[key]

\* C6: when config.json is a parseable object, load_config returns for every
\* section and key the stored value if the file has that key in that section
\* and the default otherwise; a section that is missing or no object comes
\* back all default, the other sections keeping their stored values.
C6_MergeWithDefaults ==
    (lastCall.op = "load_config" /\ lastCall.before.exists
       /\ lastCall.before.parses /\ lastCall.before.doc.t = "object")
    => /\ config.t = "dict"
       /\ \A s \in SchemaSections :
             /\ HasSection(config, s)
             /\ DOMAIN config.v[s].v = SchemaKeys(s)
             /\ \A key \in SchemaKeys(s) :
                   config.v[s].v[key]
                       = StoredOrDefault(lastCall.before.doc, s, key)

C6_Witness ==
    /\ lastCall.op = "load_config"
    /\ lastCall.before.parses /\ lastCall.before.doc.t = "object"
    /\ "mysql" \notin DOMAIN lastCall.before.doc.v
    /\ "appearance" \in DOMAIN lastCall.before.doc.v
    /\ config.t = "dict"
    /\ config.v["mysql"] = default_config.v["mysql"]
    /\ config.v["appearance"].v["theme"] = PyStr("Dark")
    /\ config.v["appearance"].v["font_size"] = PyInt("10")

\* save_config(load_config()) on a given file: the file it leaves.
SaveLoaded(file) ==
    LET r == load_config(file)
    IN  IF r.raised = "" THEN save_config(r.returned) ELSE r.file

\* C7: save_config(load_config()) done once and done twice leave the same
\* file, and load_config after save_config(c) returns c for every Config c
\* that load_config returns.
C7_RoundTrip ==
    lastCall.op = "load_config"
    => /\ SaveLoaded(SaveLoaded(lastCall.before)) = SaveLoaded(lastCall.before)
       /\ load_config(save_config(config)).returned = config

(***************************************************************************)
(* Recent projects: projects.json                                          *)
(***************************************************************************)
\* projects[:10]
RECENT_LIMIT == 10

\* ConfigManager.load_projects
load_projects(file) ==
    IF file.exists /\ file.parses THEN file.doc ELSE <<>>

\* ConfigManager.save_projects
save_projects(projects) == ListFile(projects)

\* A slip: the earlier entry for the database is not removed.
NewProjectsNoDedup(projects, new_project) ==
    Take(<<new_project>> \o projects, RECENT_LIMIT)

\* The list add_to_recent_projects builds from the loaded one.
NewProjects(projects, new_project) ==
    LET keep(p) == p.database # new_project.database
    IN  Take(<<new_project>> \o SelectSeq(projects, keep), RECENT_LIMIT)

\* Database names are numbered; the list that adding projects for the
\* databases 1, 2, .., n in this order at ticks 1..n leaves behind.
RecordedProjects(n) ==
    [i \in 1..n |-> [name |-> "demo", database |-> n + 1 - i,
                     host |-> "localhost", port |-> 3306,
                     username |-> "root", password |-> "",
                     last_opened |-> n + 1 - i]]

ProjectSizes == {0, 1, 2, RECENT_LIMIT - 1, RECENT_LIMIT}
ProjectDatabases == {1, 2, RECENT_LIMIT, RECENT_LIMIT + 1, RECENT_LIMIT + 2}

\* MySQLDatabaseManager.add_to_recent_projects(name, database, host, port)
AddToRecentProjects(name, database, host, port) ==
    LET projects == load_projects(projectsFile)
        new_project == [name |-> name, database |-> database,
                        host |-> host, port |-> port,
                        username |-> config.v["mysql"].v["username"].v,
                        password |-> config.v["mysql"].v["password"].v,
                        last_opened |-> clock + 1]
    IN  /\ calls < MaxCalls
        /\ config # NotLoaded
        /\ projectsFile' = save_projects(NewProjects(projects, new_project))
        /\ clock' = clock + 1
        /\ calls' = calls + 1
        /\ lastCall' = [op |-> "add_to_recent_projects", name |-> name,
                        database |-> database, before |-> projects]
        /\ UNCHANGED <<configVars, historyFile, loginVars, sessionVars,
                   favoritesFile>>

InitProjects ==
    /\ \E n \in ProjectSizes :
          /\ projectsFile \in (IF n = 0 THEN {AbsentFile, GarbageFile}
                                        ELSE {ListFile(RecordedProjects(n))})
          /\ clock = n
    /\ configFile = save_config(default_config)
    /\ config = default_config
    /\ historyFile = AbsentFile
    /\ calls = 0
    /\ lastCall = [op |-> "none"]
    /\ LoginIdle
    /\ SessionIdle
    /\ favoritesFile = AbsentFile
    /\ schemas = NoSchemas

NextProjects ==
    \E name \in {"demo", "shop"}, database \in ProjectDatabases :
        AddToRecentProjects(name, database, "localhost", 3306)

SpecProjects == InitProjects /\ [][NextProjects]_vars

\* The persisted project list, as the next load_projects reads it.
recent_projects == load_projects(projectsFile)

DatabasesOf(list) == {list[i].database : i \in 1..Len(list)}

WithoutDatabase(list, database) ==
    LET other(p) == p.database # database
    IN  SelectSeq(list, other)

\* C3: the persisted project list has at most 10 entries and at most one per
\* database name; adding a project whose database is already listed removes
\* the earlier entry and puts the new one at index 0, the other entries
\* keeping their relative order.
C3_ProjectRecency ==
    /\ Len(recent_projects) <= 10
    /\ \A i, j \in 1..Len(recent_projects) :
           recent_projects[i].database = recent_projects[j].database => i = j
    /\ (lastCall.op = "add_to_recent_projects"
          /\ lastCall.database \in DatabasesOf(lastCall.before))
       => /\ recent_projects[1].database = lastCall.database
          /\ recent_projects[1].name = lastCall.name
          /\ recent_projects[1].last_opened = clock
          /\ Tail(recent_projects)
                 = WithoutDatabase(lastCall.before, lastCall.database)
          /\ Len(recent_projects) = Len(lastCall.before)

C3_Witness ==
    /\ lastCall.op = "add_to_recent_projects"
    /\ lastCall.database \in DatabasesOf(lastCall.before)
    /\ Len(lastCall.before) = 10
    /\ lastCall.before[10].database = lastCall.database
    /\ lastCall.before[10].name # lastCall.name

(***************************************************************************)
(* QueryHistoryManager                                                     *)
(***************************************************************************)
\* history[:100]
HISTORY_LIMIT == 100

\* QueryHistoryManager.load_history
load_history(file) ==
    IF file.exists /\ file.parses THEN file.doc ELSE <<>>

\* QueryHistoryManager.save_history
save_history(history) == ListFile(history)

\* A slip: the old occurrence of the query is not removed.
NewHistoryNoDedup(history, query, database, timestamp) ==
    LET entry == [query |-> query, database |-> database,
                  timestamp |-> timestamp, execution_time |-> None]
    IN  Take(<<entry>> \o history, HISTORY_LIMIT)

\* A slip: the new entry is put in before an already full list is cut, but the
\* cut keeps one entry too many.
NewHistoryOffByOne(history, query, database, timestamp) ==
    LET entry == [query |-> query, database |-> database,
                  timestamp |-> timestamp, execution_time |-> None]
        keep(h) == h.query # query
    IN  Take(<<entry>> \o SelectSeq(history, keep), HISTORY_LIMIT + 1)

\* The list add_to_history builds from the loaded one.
NewHistory(history, query, database, timestamp) ==
    LET entry == [query |-> query, database |-> database,
                  timestamp |-> timestamp, execution_time |-> None]
        keep(h) == h.query # query
    IN  Take(<<entry>> \o SelectSeq(history, keep), HISTORY_LIMIT)

\* Query texts are numbered; the history that recording 1, 2, .., n in this
\* order at ticks 1..n leaves behind.
RecordedHistory(n) ==
    [i \in 1..n |-> [query |-> n + 1 - i, database |-> None,
                     timestamp |-> n + 1 - i, execution_time |-> None]]

HistorySizes == {0, 1, 2, HISTORY_LIMIT - 1, HISTORY_LIMIT}
Queries == {1, 2, HISTORY_LIMIT, HISTORY_LIMIT + 1, HISTORY_LIMIT + 2}
Databases == {"school"}

\* QueryHistoryManager.add_to_history(query, database)
AddToHistory(query, database) ==
    /\ calls < MaxCalls
    /\ historyFile' = save_history(
           NewHistory(load_history(historyFile), query, database, clock + 1))
    /\ clock' = clock + 1
    /\ calls' = calls + 1
    /\ lastCall' = [op |-> "add_to_history", query |-> query,
                    database |-> database,
                    before |-> load_history(historyFile)]
    /\ UNCHANGED <<configVars, projectsFile, loginVars, sessionVars,
                   favoritesFile>>

InitHistory ==
    /\ \E n \in HistorySizes :
          /\ historyFile \in (IF n = 0 THEN {AbsentFile, GarbageFile}
                                       ELSE {ListFile(RecordedHistory(n))})
          /\ clock = n
    /\ calls = 0
    /\ lastCall = [op |-> "none"]
    /\ LoginIdle
    /\ SessionIdle
    /\ favoritesFile = AbsentFile
    /\ schemas = NoSchemas
    /\ configFile = save_config(default_config)
    /\ config = default_config
    /\ projectsFile = AbsentFile

NextHistory ==
    \E query \in Queries, database \in Databases \cup {None} :
        AddToHistory(query, database)

SpecHistory == InitHistory /\ [][NextHistory]_vars

\* The persisted history, as the next load_history reads it.
history == load_history(historyFile)

QueriesOf(list) == {list[i].query : i \in 1..Len(list)}

\* C1: the persisted history never holds two entries with the same query
\* text; after recording a text that was already present there is exactly one
\* entry for it, at index 0, carrying the timestamp of this later recording.
C1_HistoryDedup ==
    /\ \A i, j \in 1..Len(history) :
           history[i].query = history[j].query => i = j
    /\ (lastCall.op = "add_to_history"
          /\ lastCall.query \in QueriesOf(lastCall.before))
       => /\ Cardinality({i \in 1..Len(history) :
                             history[i].query = lastCall.query}) = 1
          /\ history[1].query = lastCall.query
          /\ history[1].timestamp = clock
          /\ \A i \in 1..Len(lastCall.before) :
                 lastCall.before[i].timestamp < history[1].timestamp

C1_Witness ==
    /\ lastCall.op = "add_to_history"
    /\ lastCall.query \in QueriesOf(lastCall.before)
    /\ Len(lastCall.before) >= 2
    /\ lastCall.before[1].query # lastCall.query

\* C2: the persisted history has at most 100 entries, most recent first; when
\* 100 entries are held and a text not yet present is recorded, the last
\* (oldest) entry is dropped and the other 99 follow the new entry in their
\* old order.
C2_HistoryCap ==
    /\ Len(history) <= 100
    /\ \A i \in 1..Len(history) - 1 :
           history[i].timestamp > history[i + 1].timestamp
    /\ (lastCall.op = "add_to_history"
          /\ Len(lastCall.before) = 100
          /\ lastCall.query \notin QueriesOf(lastCall.before))
       => /\ Len(history) = 100
          /\ history[1].query = lastCall.query
          /\ \A i \in 1..99 : history[i + 1] = lastCall.before[i]

C2_Witness ==
    /\ lastCall.op = "add_to_history"
    /\ Len(lastCall.before) = 100
    /\ lastCall.query \notin QueriesOf(lastCall.before)
    /\ Len(history) = 100

(***************************************************************************)
(* The credential store (users.db) and the start-up / login flow.          *)
(* A row of the users table is [password_hash, role]; created_at is never  *)
(* read by the program and is left out.  username is the PRIMARY KEY, so   *)
(* the table is a function from usernames to rows.                         *)
(***************************************************************************)
Usernames == {"admin", "alice"}
Passwords == {"admin", "x", "y"}

\* hashlib.sha256(password.encode()).hexdigest(), by its first eight digits.
sha256(password) ==
    CASE password = "admin" -> "8c6976e5"
      [] password = "x" -> "2d711642"
      [] password = "y" -> "a1fce436"
      [] password = "" -> "e3b0c442"

\* A slip: the WHERE clause names the username only.
authenticate_name_only(table, username, password) ==
    username \in DOMAIN table

\* LoginDialog.authenticate: SELECT username FROM users WHERE username = ?
\* AND password_hash = ?; result is not None.
authenticate(table, username, password) ==
    /\ username \in DOMAIN table
    /\ table[username].password_hash = sha256(password)

\* A slip: INSERT OR REPLACE, which overwrites the row of an existing name.
create_user_replace(table, username, password) ==
    [table |-> (username :> [password_hash |-> sha256(password),
                             role |-> "user"]) @@ table,
     returned |-> TRUE]

\* CreateUserDialog.create_user: INSERT INTO users (username, password_hash);
\* the PRIMARY KEY rejects an existing username with IntegrityError, which
\* the method answers with False.  role takes its DEFAULT 'user'.
create_user(table, username, password) ==
    IF username \in DOMAIN table
    THEN [table |-> table, returned |-> FALSE]
    ELSE [table |-> (username :> [password_hash |-> sha256(password),
                                  role |-> "user"]) @@ table,
          returned |-> TRUE]

\* A slip: the role column is left to its DEFAULT 'user'.
create_default_admin_as_user(table) ==
    ("admin" :> [password_hash |-> sha256("admin"), role |-> "user"])
        @@ table

\* MySQLDatabaseManager.create_default_admin: the table after the INSERT of
\* ("admin", sha256("admin"), "admin").
create_default_admin(table) ==
    ("admin" :> [password_hash |-> sha256("admin"), role |-> "admin"])
        @@ table

\* MySQLDatabaseManager.__init__ up to the end of authenticate_user's first
\* branch: ConfigManager() (CREATE TABLE IF NOT EXISTS keeps the rows),
\* load_config, then SELECT COUNT(*) FROM users.  With no user the default
\* admin is created and the main interface is built; otherwise the login
\* dialog opens.
Start ==
    LET r == load_config(configFile)
        user_count == Cardinality(DOMAIN users)
    IN  /\ pc \in {"not_started", "ended"}
        /\ config' = r.returned
        /\ configFile' = r.file
        /\ IF user_count = 0
           THEN /\ users' = create_default_admin(users)
                /\ enrolled' = ("admin" :> "admin") @@ enrolled
                /\ current_user' = "admin"
                /\ pc' = "main"
           ELSE /\ UNCHANGED <<users, enrolled>>
                /\ current_user' = None
                /\ pc' = "login_dialog"
        /\ lastCall' = [op |-> "authenticate_user", before |-> users,
                        user_count |-> user_count, file |-> configFile]
        /\ UNCHANGED <<projectsFile, historyFile, clock, calls, sessionVars,
                   procs, favoritesFile>>

\* The Login button as it would be with the dialog closing on any input.
LoginAlwaysEnters(username, password) ==
    /\ pc = "login_dialog"
    /\ IF TRUE
       THEN /\ current_user' = username
            /\ config' = [config EXCEPT !.v =
                              ("current_user" :> PyStr(username)) @@ @]
            /\ configFile' = save_config(config')
            /\ pc' = "main"
       ELSE UNCHANGED <<current_user, config, configFile, pc>>
    /\ lastCall' = [op |-> "authenticate", username |-> username,
                    password |-> password, before |-> users,
                    returned |-> authenticate(users, username, password)]
    /\ UNCHANGED <<users, enrolled, projectsFile, historyFile, clock, calls,
                   sessionVars,
                   procs, favoritesFile>>

\* LoginDialog.show: the Login button.  A match closes the dialog, and
\* authenticate_user stores the name in the Config, saves it and returns True.
Login(username, password) ==
    /\ pc = "login_dialog"
    /\ IF authenticate(users, username, password)
       THEN /\ current_user' = username
            /\ config' = [config EXCEPT !.v =
                              ("current_user" :> PyStr(username)) @@ @]
            /\ configFile' = save_config(config')
            /\ pc' = "main"
       ELSE UNCHANGED <<current_user, config, configFile, pc>>
    /\ lastCall' = [op |-> "authenticate", username |-> username,
                    password |-> password, before |-> users,
                    returned |-> authenticate(users, username, password)]
    /\ UNCHANGED <<users, enrolled, projectsFile, historyFile, clock, calls,
                   sessionVars,
                   procs, favoritesFile>>

\* LoginDialog.show: the Create Account button, then CreateUserDialog's
\* Create button with the three texts of its form.
CreateAccount(username, password, confirm) ==
    LET r == create_user(users, username, password)
    IN  /\ pc = "login_dialog"
        /\ IF username = "" \/ password = "" \/ password # confirm
           THEN /\ UNCHANGED <<users, enrolled>>
                /\ lastCall' = [op |-> "create", username |-> username]
           ELSE /\ users' = r.table
                /\ enrolled' = (IF r.returned
                                THEN (username :> password) @@ enrolled
                                ELSE enrolled)
                /\ lastCall' = [op |-> "create_user", username |-> username,
                                password |-> password, before |-> users,
                                returned |-> r.returned]
        /\ UNCHANGED <<configVars, current_user, pc, projectsFile,
                       historyFile, clock, calls, sessionVars,
                   procs, favoritesFile>>

\* LoginDialog.show: the Cancel button.  show returns None, authenticate_user
\* returns False and __init__ destroys the root window.
CancelLogin ==
    /\ pc = "login_dialog"
    /\ current_user' = None
    /\ pc' = "ended"
    /\ lastCall' = [op |-> "cancel"]
    /\ UNCHANGED <<configVars, users, enrolled, projectsFile, historyFile,
                   clock, calls, sessionVars,
                   procs, favoritesFile>>

\* File > Exit: root.quit ends the run; users.db and config.json stay.
Exit ==
    /\ pc = "main"
    /\ pc' = "ended"
    /\ lastCall' = [op |-> "exit"]
    /\ UNCHANGED <<configVars, users, enrolled, current_user, projectsFile,
                   historyFile, clock, calls, sessionVars,
                   procs, favoritesFile>>

InitLogin ==
    /\ configFile = NoFile
    /\ config = NotLoaded
    /\ projectsFile = AbsentFile
    /\ historyFile = AbsentFile
    /\ clock = 0
    /\ calls = 0
    /\ lastCall = [op |-> "none"]
    /\ LoginIdle
    /\ SessionIdle
    /\ favoritesFile = AbsentFile
    /\ schemas = NoSchemas

NextLogin ==
    \/ Start
    \/ \E username \in Usernames, password \in Passwords :
           Login(username, password)
    \/ \E username \in Usernames \cup {""}, password \in Passwords,
          confirm \in Passwords :
           CreateAccount(username, password, confirm)
    \/ CancelLogin
    \/ Exit

SpecLogin == InitLogin /\ [][NextLogin]_vars

\* C8: create_user with a username that already exists returns False and
\* leaves the store as it was: the account still authenticates with the
\* password it was created with and not with the password of the refused
\* call.
C8_DuplicateUsername ==
    (lastCall.op = "create_user" /\ lastCall.username \in DOMAIN lastCall.before)
    => /\ lastCall.returned = FALSE
       /\ users = lastCall.before
       /\ authenticate(users, lastCall.username, enrolled[lastCall.username])
       /\ lastCall.password # enrolled[lastCall.username]
          => ~authenticate(users, lastCall.username, lastCall.password)

C8_Witness ==
    /\ lastCall.op = "create_user"
    /\ lastCall.username = "alice"
    /\ lastCall.username \in DOMAIN lastCall.before
    /\ enrolled["alice"] = "x"
    /\ lastCall.password = "y"

\* C9: start-up on an empty credential store creates exactly one record,
\* username "admin" with role "admin", after which the user count is 1 and
\* the current user is "admin"; start-up on a store that is not empty creates
\* no account.
C9_Bootstrap ==
    lastCall.op = "authenticate_user"
    => IF lastCall.before = <<>>
       THEN /\ DOMAIN users = {"admin"}
            /\ users["admin"].role = "admin"
            /\ Cardinality(DOMAIN users) = 1
            /\ current_user = "admin"
       ELSE users = lastCall.before

C9_Witness ==
    /\ lastCall.op = "authenticate_user"
    /\ lastCall.before = <<>>
    /\ pc = "main"
    /\ Cardinality(DOMAIN users) = 1

(***************************************************************************)
(* DatabaseManager: the session with the MySQL server.  The server hands   *)
(* out numbered connections; a connection is alive from the connect that   *)
(* opened it until it is closed or lost (server gone, network down).       *)
(***************************************************************************)
\* connection.is_connected()
is_connected(conn) == conn \in openConns /\ conn \notin lostConns

\* A slip: only the connection object is tested, not whether it is alive.
NotConnectedNoneOnly(conn) == conn = NoConnection

\* DatabaseManager.execute_query: not self.connection or not
\* self.connection.is_connected()
NotConnected(conn) == conn = NoConnection \/ ~is_connected(conn)

\* connect as it would be with current_database assigned before the
\* connection is made.
ConnectAssignsFirst(database, ok) ==
    /\ nextConn <= MaxConnections
    /\ ok => (database = None \/ database \in DOMAIN schemas)
    /\ IF ok
       THEN /\ connection' = nextConn
            /\ current_database' = database
            /\ openConns' = openConns \cup {nextConn}
            /\ nextConn' = nextConn + 1
            /\ session' = "connected"
       ELSE /\ current_database' = database
            /\ UNCHANGED <<connection, openConns, nextConn, session>>
    /\ lastCall' = [op |-> "connect", database |-> database, returned |-> ok,
                    connection_before |-> connection,
                    database_before |-> current_database]
    /\ UNCHANGED <<lostConns, sent, commits, configVars, projectsFile,
                   historyFile, clock, calls, loginVars,
                   schemas, favoritesFile>>

\* DatabaseManager.connect(database).  mysql.connector.connect either hands
\* out a connection or raises Error, which connect answers with False after
\* the message box; nothing is assigned in that case.  The server refuses a
\* connection that names a database it does not hold.  The connection held
\* before is not closed: the attribute is assigned over.
Connect(database, ok) ==
    /\ nextConn <= MaxConnections
    /\ ok => (database = None \/ database \in DOMAIN schemas)
    /\ IF ok
       THEN /\ connection' = nextConn
            /\ current_database' = database
            /\ openConns' = openConns \cup {nextConn}
            /\ nextConn' = nextConn + 1
            /\ session' = "connected"
       ELSE UNCHANGED <<connection, current_database, openConns, nextConn,
                        session>>
    /\ lastCall' = [op |-> "connect", database |-> database, returned |-> ok,
                    connection_before |-> connection,
                    database_before |-> current_database]
    /\ UNCHANGED <<lostConns, sent, commits, configVars, projectsFile,
                   historyFile, clock, calls, loginVars,
                   schemas, favoritesFile>>

\* DatabaseManager.disconnect
Disconnect ==
    /\ IF connection # NoConnection /\ is_connected(connection)
       THEN /\ openConns' = openConns \ {connection}
            /\ connection' = NoConnection
            /\ current_database' = None
       ELSE UNCHANGED <<openConns, connection, current_database>>
    /\ session' = (IF session = "connected" THEN "disconnected" ELSE session)
    /\ lastCall' = [op |-> "disconnect", connection_before |-> connection,
                    database_before |-> current_database]
    /\ UNCHANGED <<lostConns, nextConn, sent, commits, configVars,
                   projectsFile, historyFile, clock, calls, loginVars,
                   schemas, favoritesFile>>

\* The two results of execute_query.
Tabular == {"columns", "rows", "rowcount"}
RowcountOnly == {"rowcount"}

\* A slip: the tabular path commits as well.
execute_outcome_always_commits(fetch, engine, commit_ok) ==
    IF engine = "error" \/ ~commit_ok
    THEN [raised |-> "Error", keys |-> {}, committed |-> FALSE,
          cursor |-> "closed"]
    ELSE [raised |-> "",
          keys |-> IF fetch /\ engine = "rows" THEN Tabular
                                               ELSE RowcountOnly,
          committed |-> TRUE, cursor |-> "closed"]

\* execute_query once the cursor is open.  `engine` is what the server does
\* with the statement: "error" (cursor.execute raises), "rows"
\* (cursor.description is set) or "done" (no result set); `commit_ok` is
\* whether connection.commit() returns or raises.  `keys` are the keys of the
\* dict returned.  `cursor` is the cursor after the finally clause:
\* cursor.close() refuses, as commit() does, while rows of a result set are
\* unread.
execute_outcome(fetch, engine, commit_ok) ==
    IF engine = "error"
    THEN [raised |-> "Error", keys |-> {}, committed |-> FALSE,
          cursor |-> "closed"]
    ELSE IF fetch /\ engine = "rows"
    THEN [raised |-> "", keys |-> Tabular, committed |-> FALSE,
          cursor |-> "closed"]
    ELSE IF ~commit_ok
    THEN [raised |-> "Error", keys |-> {}, committed |-> FALSE,
          cursor |-> IF engine = "rows" THEN "open" ELSE "closed"]
    ELSE [raised |-> "", keys |-> RowcountOnly, committed |-> TRUE,
          cursor |-> "closed"]

\* execute_query as it would be with one retry of a statement that failed.
ExecuteQueryRetries(query, fetch, engine, commit_ok) ==
    /\ IF NotConnected(connection)
       THEN /\ lastCall' = [op |-> "execute_query", query |-> query,
                            fetch |-> fetch, engine |-> "none",
                            raised |-> "Not connected to database",
                            keys |-> {}, cursor |-> "none",
                            sent_before |-> sent,
                            commits_before |-> commits,
                            connection_before |-> connection,
                            database_before |-> current_database]
            /\ UNCHANGED <<sent, commits>>
       ELSE LET r == execute_outcome(fetch, engine, commit_ok) IN
            /\ sent < MaxStatements
            /\ sent' = (IF r.raised # "" THEN sent + 2 ELSE sent + 1)
            /\ commits' = (IF r.committed THEN commits + 1 ELSE commits)
            /\ lastCall' = [op |-> "execute_query", query |-> query,
                            fetch |-> fetch, engine |-> engine,
                            raised |-> r.raised, keys |-> r.keys,
                            cursor |-> r.cursor,
                            sent_before |-> sent,
                            commits_before |-> commits,
                            connection_before |-> connection,
                            database_before |-> current_database]
    /\ UNCHANGED <<connection, current_database, openConns, lostConns,
                   nextConn, session, configVars, projectsFile, historyFile,
                   clock, calls, loginVars,
                   schemas, favoritesFile>>

\* DatabaseManager.execute_query(query, params, fetch).
ExecuteQuery(query, fetch, engine, commit_ok) ==
    /\ IF NotConnected(connection)
       THEN /\ lastCall' = [op |-> "execute_query", query |-> query,
                            fetch |-> fetch, engine |-> "none",
                            raised |-> "Not connected to database",
                            keys |-> {}, cursor |-> "none",
                            sent_before |-> sent,
                            commits_before |-> commits,
                            connection_before |-> connection,
                            database_before |-> current_database]
            /\ UNCHANGED <<sent, commits>>
       ELSE LET r == execute_outcome(fetch, engine, commit_ok) IN
            /\ sent < MaxStatements
            /\ sent' = sent + 1
            /\ commits' = (IF r.committed THEN commits + 1 ELSE commits)
            /\ lastCall' = [op |-> "execute_query", query |-> query,
                            fetch |-> fetch, engine |-> engine,
                            raised |-> r.raised, keys |-> r.keys,
                            cursor |-> r.cursor,
                            sent_before |-> sent,
                            commits_before |-> commits,
                            connection_before |-> connection,
                            database_before |-> current_database]
    /\ UNCHANGED <<connection, current_database, openConns, lostConns,
                   nextConn, session, configVars, projectsFile, historyFile,
                   clock, calls, loginVars,
                   schemas, favoritesFile>>

\* The server or the network drops a connection.
LoseConnection(conn) ==
    /\ conn \in openConns \ lostConns
    /\ lostConns' = lostConns \cup {conn}
    /\ lastCall' = [op |-> "lose_connection"]
    /\ UNCHANGED <<connection, current_database, openConns, nextConn, sent,
                   commits, session, configVars, projectsFile, historyFile,
                   clock, calls, loginVars,
                   schemas, favoritesFile>>

(***************************************************************************)
(* The server's side of provisioning.  `schemas` maps each database the    *)
(* server holds to its tables; of the tables only students is followed,    *)
(* as the list of its rows in insertion order.  A row is the four columns  *)
(* the INSERT names; id and created_at are filled in by the server.        *)
(***************************************************************************)
EmptyDatabase == [tables |-> {}, students |-> <<>>]

\* CREATE DATABASE IF NOT EXISTS `db_name`
create_database_if_not_exists(server, db_name) ==
    IF db_name \in DOMAIN server
    THEN server
    ELSE [d \in DOMAIN server \cup {db_name} |->
             IF d = db_name THEN EmptyDatabase ELSE server[d]]

\* CREATE TABLE IF NOT EXISTS students (...)
create_table_if_not_exists(db) ==
    IF "students" \in db.tables
    THEN db
    ELSE [tables |-> db.tables \cup {"students"}, students |-> <<>>]

\* sample_data
sample_data ==
    << [name |-> "John Doe", email |-> "john@example.com", age |-> 20,
        grade |-> "A"],
       [name |-> "Jane Smith", email |-> "jane@example.com", age |-> 19,
        grade |-> "B"],
       [name |-> "Bob Johnson", email |-> "bob@example.com", age |-> 21,
        grade |-> "A"],
       [name |-> "Alice Brown", email |-> "alice@example.com", age |-> 18,
        grade |-> "C"],
       [name |-> "Charlie Wilson", email |-> "charlie@example.com",
        age |-> 22, grade |-> "B"] >>

\* A slip: the row is stored whether or not its email is already there.
insert_always(rows, row) == Append(rows, row)

\* INSERT IGNORE INTO students ... for one row: email is UNIQUE, and IGNORE
\* turns the duplicate-key error into a row that is not stored.
insert_ignore(rows, row) ==
    IF \E i \in 1..Len(rows) : rows[i].email = row.email
    THEN rows
    ELSE Append(rows, row)

\* cursor.executemany(insert_query, data)
RECURSIVE executemany(_, _)
executemany(rows, data) ==
    IF data = <<>>
    THEN rows
    ELSE executemany(insert_ignore(rows, Head(data)), Tail(data))

\* DatabaseManager.create_database(db_name)
CreateDatabase(db_name, engine) ==
    /\ IF NotConnected(connection)
       THEN /\ lastCall' = [op |-> "create_database", db_name |-> db_name,
                            raised |-> "Not connected to database",
                            engine |-> engine,
                                    before |-> schemas]
            /\ UNCHANGED <<sent, commits, schemas>>
       ELSE /\ sent < MaxStatements
            /\ sent' = sent + 1
            /\ IF engine = "error"
               THEN /\ UNCHANGED <<commits, schemas>>
                    /\ lastCall' = [op |-> "create_database",
                                    db_name |-> db_name, raised |-> "Error",
                                    engine |-> engine,
                                    before |-> schemas]
               ELSE /\ commits' = commits + 1
                    /\ schemas' =
                           create_database_if_not_exists(schemas, db_name)
                    /\ lastCall' = [op |-> "create_database",
                                    db_name |-> db_name, raised |-> "",
                                    engine |-> engine,
                                    before |-> schemas]
    /\ UNCHANGED <<connection, current_database, openConns, lostConns,
                   nextConn, session, configVars, projectsFile, historyFile,
                   favoritesFile, clock, calls, loginVars>>

\* DatabaseManager.create_sample_table(db_name): USE, CREATE TABLE, then the
\* INSERT of the sample rows and a commit.  `failure` is the statement the
\* server answers with an error, if any; USE of a database the server does
\* not hold is always one.  An error ends the call where it is raised.
CreateSampleTable(db_name, failure) ==
    /\ IF NotConnected(connection)
       THEN /\ lastCall' = [op |-> "create_sample_table",
                            db_name |-> db_name,
                            raised |-> "Not connected to database",
                            failure |-> failure,
                                    before |-> schemas]
            /\ UNCHANGED <<sent, commits, schemas>>
       ELSE /\ sent < MaxStatements
            /\ IF failure = "use" \/ db_name \notin DOMAIN schemas
               THEN /\ sent' = sent + 1
                    /\ UNCHANGED <<commits, schemas>>
                    /\ lastCall' = [op |-> "create_sample_table",
                                    db_name |-> db_name,
                                    raised |-> IF failure = "use"
                                               THEN "Error"
                                               ELSE "Unknown database",
                                    failure |-> failure,
                                    before |-> schemas]
               ELSE IF failure = "create"
               THEN /\ sent' = sent + 2
                    /\ commits' = commits + 1
                    /\ UNCHANGED schemas
                    /\ lastCall' = [op |-> "create_sample_table",
                                    db_name |-> db_name, raised |-> "Error",
                                    failure |-> failure,
                                    before |-> schemas]
               ELSE LET db == create_table_if_not_exists(schemas[db_name])
                    IN
                    IF failure = "insert"
                    THEN /\ sent' = sent + 3
                         /\ commits' = commits + 2
                         /\ schemas' = [schemas EXCEPT ![db_name] = db]
                         /\ lastCall' = [op |-> "create_sample_table",
                                         db_name |-> db_name,
                                         raised |-> "Error",
                                         failure |-> failure,
                                    before |-> schemas]
                    ELSE /\ sent' = sent + 3
                         /\ commits' = commits + 3
                         /\ schemas' = [schemas EXCEPT ![db_name] =
                                [db EXCEPT !.students =
                                    executemany(db.students, sample_data)]]
                         /\ lastCall' = [op |-> "create_sample_table",
                                         db_name |-> db_name, raised |-> "",
                                         failure |-> failure,
                                    before |-> schemas]
    /\ UNCHANGED <<connection, current_database, openConns, lostConns,
                   nextConn, session, configVars, projectsFile, historyFile,
                   favoritesFile, clock, calls, loginVars>>

\* DatabaseManager.get_databases: SHOW DATABASES.  `engine` is "rows" or
\* "error"; `returned` is the list the call hands back.
GetDatabases(engine) ==
    /\ IF NotConnected(connection)
       THEN /\ lastCall' = [op |-> "get_databases",
                            raised |-> "Not connected to database",
                            returned |-> None]
            /\ UNCHANGED sent
       ELSE /\ sent < MaxStatements
            /\ sent' = sent + 1
            /\ lastCall' = IF engine = "error"
                           THEN [op |-> "get_databases", raised |-> "Error",
                                 returned |-> None]
                           ELSE [op |-> "get_databases", raised |-> "",
                                 returned |-> DOMAIN schemas]
    /\ UNCHANGED <<connection, current_database, openConns, lostConns,
                   nextConn, commits, schemas, session, configVars,
                   projectsFile, historyFile, favoritesFile, clock, calls,
                   loginVars>>

\* DatabaseManager.get_tables: the empty list when no database is current,
\* SHOW TABLES otherwise.
GetTables(engine) ==
    /\ IF current_database = None
       THEN /\ lastCall' = [op |-> "get_tables", raised |-> "",
                            returned |-> {}]
            /\ UNCHANGED sent
       ELSE IF NotConnected(connection)
       THEN /\ lastCall' = [op |-> "get_tables",
                            raised |-> "Not connected to database",
                            returned |-> None]
            /\ UNCHANGED sent
       ELSE /\ sent < MaxStatements
            /\ sent' = sent + 1
            /\ lastCall' = IF engine = "error"
                              \/ current_database \notin DOMAIN schemas
                           THEN [op |-> "get_tables", raised |-> "Error",
                                 returned |-> None]
                           ELSE [op |-> "get_tables", raised |-> "",
                                 returned |->
                                     schemas[current_database].tables]
    /\ UNCHANGED <<connection, current_database, openConns, lostConns,
                   nextConn, commits, schemas, session, configVars,
                   projectsFile, historyFile, favoritesFile, clock, calls,
                   loginVars>>

\* DatabaseManager.get_table_structure(table_name): DESCRIBE table_name.
GetTableStructure(table_name, engine) ==
    /\ IF NotConnected(connection)
       THEN /\ lastCall' = [op |-> "get_table_structure",
                            table_name |-> table_name,
                            raised |-> "Not connected to database",
                            returned |-> None]
            /\ UNCHANGED sent
       ELSE /\ sent < MaxStatements
            /\ sent' = sent + 1
            /\ lastCall' = IF engine = "error"
                           THEN [op |-> "get_table_structure",
                                 table_name |-> table_name,
                                 raised |-> "Error", returned |-> None]
                           ELSE [op |-> "get_table_structure",
                                 table_name |-> table_name,
                                 raised |-> "", returned |-> Tabular]
    /\ UNCHANGED <<connection, current_database, openConns, lostConns,
                   nextConn, commits, schemas, session, configVars,
                   projectsFile, historyFile, favoritesFile, clock, calls,
                   loginVars>>

\* MySQLDatabaseManager.open_project up to the selection dialog: connect(),
\* get_databases(), disconnect().  A get_databases that raises is answered
\* by the message box of the except clause, and disconnect is not reached.
OpenProject(ok, engine) ==
    /\ nextConn <= MaxConnections
    /\ sent < MaxStatements
    /\ IF ~ok
       THEN UNCHANGED <<connection, current_database, openConns, nextConn,
                        session, sent>>
       ELSE /\ nextConn' = nextConn + 1
            /\ sent' = sent + 1
            /\ current_database' = None
            /\ IF engine = "error"
               THEN /\ connection' = nextConn
                    /\ openConns' = openConns \cup {nextConn}
                    /\ session' = "connected"
               ELSE /\ connection' = NoConnection
                    /\ UNCHANGED openConns
                    /\ session' = "disconnected"
    /\ lastCall' = [op |-> "open_project", connected |-> ok,
                    raised |-> IF ok /\ engine = "error" THEN "Error"
                               ELSE ""]
    /\ UNCHANGED <<lostConns, commits, schemas, configVars, projectsFile,
                   historyFile, favoritesFile, clock, calls, loginVars>>

\* MySQLDatabaseManager.show_main_screen(database_name): connect, then the
\* tabs.  create_tables_tab and create_data_tab each list the tables
\* (refresh_tables, refresh_table_combo), and the data tab reads the first
\* table when there is one (load_table_data); each of the three answers an
\* error with a message box.
ShowMainScreen(database_name, ok, engine) ==
    /\ nextConn <= MaxConnections
    /\ sent < MaxStatements
    /\ ok => database_name \in DOMAIN schemas
    /\ IF ~ok
       THEN UNCHANGED <<connection, current_database, openConns, nextConn,
                        session, sent>>
       ELSE /\ connection' = nextConn
            /\ current_database' = database_name
            /\ openConns' = openConns \cup {nextConn}
            /\ nextConn' = nextConn + 1
            /\ session' = "connected"
            /\ sent' = IF engine = "rows"
                          /\ schemas[database_name].tables # {}
                       THEN sent + 3
                       ELSE sent + 2
    /\ lastCall' = [op |-> "show_main_screen",
                    database_name |-> database_name, connected |-> ok]
    /\ UNCHANGED <<lostConns, commits, schemas, configVars, projectsFile,
                   historyFile, favoritesFile, clock, calls, loginVars>>

InitSession ==
    /\ configFile = save_config(default_config)
    /\ config = default_config
    /\ projectsFile = AbsentFile
    /\ historyFile = AbsentFile
    /\ clock = 0
    /\ calls = 0
    /\ lastCall = [op |-> "none"]
    /\ LoginIdle
    /\ SessionIdle
    /\ favoritesFile = AbsentFile
    /\ schemas \in {NoSchemas,
                    create_database_if_not_exists(NoSchemas, "school")}

NextSession ==
    \/ \E database \in Databases \cup {None}, ok \in BOOLEAN :
           Connect(database, ok)
    \/ Disconnect
    \/ \E query \in {"SELECT", "UPDATE"}, fetch \in BOOLEAN,
          engine \in {"error", "rows", "done"}, commit_ok \in BOOLEAN :
           ExecuteQuery(query, fetch, engine, commit_ok)
    \/ \E conn \in 1..MaxConnections : LoseConnection(conn)
    \/ \E db_name \in Databases, engine \in {"error", "done"} :
           CreateDatabase(db_name, engine)
    \/ \E db_name \in Databases,
          failure \in {"none", "use", "create", "insert"} :
           CreateSampleTable(db_name, failure)
    \/ \E engine \in {"error", "rows"} : GetDatabases(engine)
    \/ \E engine \in {"error", "rows"} : GetTables(engine)
    \/ \E table_name \in {"students"}, engine \in {"error", "rows"} :
           GetTableStructure(table_name, engine)
    \/ \E ok \in BOOLEAN, engine \in {"error", "rows"} :
           OpenProject(ok, engine)
    \/ \E database_name \in Databases, ok \in BOOLEAN,
          engine \in {"error", "rows"} :
           ShowMainScreen(database_name, ok, engine)

SpecSession == InitSession /\ [][NextSession]_vars

\* C10: execute_query fails with the not-connected error, sending no
\* statement, whenever no connect has succeeded yet on the manager and
\* whenever the last successful connect has been followed by disconnect.
C10_NotConnected ==
    (lastCall.op = "execute_query" /\ session \in {"never", "disconnected"})
    => /\ lastCall.raised = "Not connected to database"
       /\ sent = lastCall.sent_before

C10_Witness ==
    /\ lastCall.op = "execute_query"
    /\ session = "disconnected"
    /\ connection # NoConnection
    /\ lastCall.raised = "Not connected to database"

\* C11: the manager holds at most one live server connection at any time;
\* a connect made while a connection is held leaks none.
C11_SingleConnection == Cardinality(openConns \ lostConns) <= 1

\* C12: a successful connect records the requested database as the active
\* one and leaves the manager connected; a failed connect leaves it with no
\* live connection and no active database, whatever it held before.
C12_ConnectOutcome ==
    lastCall.op = "connect"
    => IF lastCall.returned
       THEN /\ current_database = lastCall.database
            /\ ~NotConnected(connection)
       ELSE /\ NotConnected(connection)
            /\ current_database = None

\* C13: after disconnect returns the manager holds no connection and its
\* active database is cleared, from every state, a connection object that
\* is no longer alive included.
C13_DisconnectClears ==
    lastCall.op = "disconnect"
    => /\ connection = NoConnection
       /\ current_database = None

\* C14: get_databases, get_tables and get_table_structure each fail with
\* the not-connected error whenever the manager is not connected; none
\* returns a normal result then.
C14_ReadsRequireConnection ==
    (/\ lastCall.op \in {"get_databases", "get_tables",
                         "get_table_structure"}
     /\ NotConnected(connection))
    => lastCall.raised = "Not connected to database"

\* C15 as stated: when the engine reports a result descriptor execute_query
\* returns columns, rows and rowcount and issues no commit; otherwise it
\* commits and returns only rowcount.
C15_TwoVariants ==
    (lastCall.op = "execute_query")
    => /\ lastCall.engine = "rows"
          => /\ lastCall.raised = ""
             /\ lastCall.keys = Tabular
             /\ commits = lastCall.commits_before
       /\ (lastCall.engine = "done" /\ lastCall.raised = "")
          => /\ lastCall.keys = RowcountOnly
             /\ commits = lastCall.commits_before + 1

\* C15, amended: when the engine reports a result descriptor and the call
\* fetches (the default) execute_query returns columns, rows and rowcount
\* and issues no commit; otherwise, when it returns, it has committed and
\* returns only rowcount.  The two variants are never both populated.
C15_TwoVariantsByFetch ==
    (lastCall.op = "execute_query" /\ lastCall.raised = "")
    => IF lastCall.fetch /\ lastCall.engine = "rows"
       THEN lastCall.keys = Tabular /\ commits = lastCall.commits_before
       ELSE /\ lastCall.keys = RowcountOnly
            /\ commits = lastCall.commits_before + 1

C15_Witness ==
    /\ lastCall.op = "execute_query"
    /\ ~lastCall.fetch
    /\ lastCall.engine = "rows"
    /\ lastCall.keys # Tabular

\* The emails of the rows of a table, and whether each occurs once.
EmailsOf(rows) == {rows[i].email : i \in 1..Len(rows)}
NoDuplicateEmail(rows) == Cardinality(EmailsOf(rows)) = Len(rows)

\* C16: provisioning is idempotent.  create_database and create_sample_table
\* that the server does not fail for a reason of its own raise no error
\* however often they are repeated, and a repeated create_sample_table
\* leaves the students table with the rows the first call stored.
C16_ProvisionIdempotent ==
    /\ (/\ lastCall.op = "create_database"
        /\ lastCall.engine # "error"
        /\ lastCall.raised # "Not connected to database")
       => /\ lastCall.raised = ""
          /\ lastCall.db_name \in DOMAIN schemas
          /\ \A d \in DOMAIN lastCall.before : schemas[d] = lastCall.before[d]
    /\ (/\ lastCall.op = "create_sample_table"
        /\ lastCall.failure = "none"
        /\ lastCall.raised # "Not connected to database"
        /\ lastCall.db_name \in DOMAIN lastCall.before)
       => /\ lastCall.raised = ""
          /\ "students" \in schemas[lastCall.db_name].tables
          /\ NoDuplicateEmail(schemas[lastCall.db_name].students)
          /\ lastCall.before[lastCall.db_name].students # <<>>
             => schemas[lastCall.db_name].students
                    = lastCall.before[lastCall.db_name].students

C16_Witness ==
    /\ lastCall.op = "create_sample_table"
    /\ lastCall.raised = ""
    /\ lastCall.before[lastCall.db_name].students = sample_data
    /\ schemas[lastCall.db_name].students = sample_data

(***************************************************************************)
(* Several application processes started side by side on one users.db.     *)
(* Each runs MySQLDatabaseManager.__init__; between its count of the rows  *)
(* and its INSERT the others may take steps.  Here `users` is the table as *)
(* the list of its rows, so that the PRIMARY KEY on username is a test the *)
(* INSERT makes, and `procs` holds, for each process, where it is, the     *)
(* count it read and its current_user.  config.json is present and valid:  *)
(* load_config leaves it as it is.                                         *)
(***************************************************************************)
NumProcs == 2
Procs == 1..NumProcs

\* A slip: a table without the PRIMARY KEY, which stores every row.
insert_user_no_key(rows, row) ==
    [table |-> Append(rows, row), raised |-> ""]

\* INSERT INTO users ...: the PRIMARY KEY on username rejects a row whose
\* username is present with sqlite3.IntegrityError.
insert_user(rows, row) ==
    IF \E i \in 1..Len(rows) : rows[i].username = row.username
    THEN [table |-> rows, raised |-> "IntegrityError"]
    ELSE [table |-> Append(rows, row), raised |-> ""]

\* The row create_default_admin inserts.
admin_row ==
    [username |-> "admin", password_hash |-> sha256("admin"),
     role |-> "admin"]

\* authenticate_user, first half: SELECT COUNT(*) FROM users, conn.close().
CountUsers(p) ==
    /\ procs[p].pc = "not_started"
    /\ procs' = [procs EXCEPT ![p] = [pc |-> "counted",
                                      user_count |-> Len(users),
                                      current_user |-> None]]
    /\ lastCall' = [op |-> "count_users", proc |-> p,
                    user_count |-> Len(users)]
    /\ UNCHANGED <<users, current_user, pc, enrolled, configVars,
                   projectsFile, historyFile, favoritesFile, clock, calls,
                   sessionVars>>

\* authenticate_user, second half.  With a count of 0 create_default_admin
\* runs; it has no except clause, so an IntegrityError leaves __init__ and
\* ends the process with a traceback.  Otherwise the login dialog opens.
BootstrapOrDialog(p) ==
    /\ procs[p].pc = "counted"
    /\ IF procs[p].user_count = 0
       THEN LET r == insert_user(users, admin_row) IN
            /\ users' = r.table
            /\ procs' = [procs EXCEPT ![p] =
                   IF r.raised = ""
                   THEN [@ EXCEPT !.pc = "main", !.current_user = "admin"]
                   ELSE [@ EXCEPT !.pc = "crashed"]]
            /\ lastCall' = [op |-> "create_default_admin", proc |-> p,
                            raised |-> r.raised]
       ELSE /\ UNCHANGED users
            /\ procs' = [procs EXCEPT ![p].pc = "login_dialog"]
            /\ lastCall' = [op |-> "login_dialog", proc |-> p, raised |-> ""]
    /\ UNCHANGED <<current_user, pc, enrolled, configVars, projectsFile,
                   historyFile, favoritesFile, clock, calls, sessionVars>>

\* CreateUserDialog.create_user in the login dialog of process p: the
\* IntegrityError is answered with False.
DialogCreateUser(p, username, password) ==
    /\ procs[p].pc = "login_dialog"
    /\ LET r == insert_user(users, [username |-> username,
                                    password_hash |-> sha256(password),
                                    role |-> "user"])
       IN  /\ users' = r.table
           /\ lastCall' = [op |-> "create_user", proc |-> p,
                           username |-> username, raised |-> "",
                           returned |-> (r.raised = "")]
    /\ UNCHANGED <<procs, current_user, pc, enrolled, configVars,
                   projectsFile, historyFile, favoritesFile, clock, calls,
                   sessionVars>>

\* LoginDialog.cancel: authenticate_user returns False and __init__ destroys
\* the root window.
DialogCancel(p) ==
    /\ procs[p].pc = "login_dialog"
    /\ procs' = [procs EXCEPT ![p].pc = "ended"]
    /\ lastCall' = [op |-> "cancel", proc |-> p, raised |-> ""]
    /\ UNCHANGED <<users, current_user, pc, enrolled, configVars,
                   projectsFile, historyFile, favoritesFile, clock, calls,
                   sessionVars>>

\* LoginDialog.login in the dialog of process p.  A match closes the dialog;
\* authenticate_user stores the name in the Config the process loaded at its
\* start and saves it.
DialogLogin(p, username, password) ==
    /\ procs[p].pc = "login_dialog"
    /\ IF \E i \in 1..Len(users) :
              /\ users[i].username = username
              /\ users[i].password_hash = sha256(password)
       THEN /\ procs' = [procs EXCEPT ![p].pc = "main",
                                      ![p].current_user = username]
            /\ configFile' = save_config(
                   [load_config(configFile).returned EXCEPT !.v =
                        ("current_user" :> PyStr(username)) @@ @])
            /\ lastCall' = [op |-> "login", proc |-> p,
                            username |-> username, raised |-> "",
                            returned |-> TRUE]
       ELSE /\ UNCHANGED <<procs, configFile>>
            /\ lastCall' = [op |-> "login", proc |-> p,
                            username |-> username, raised |-> "",
                            returned |-> FALSE]
    /\ UNCHANGED <<users, current_user, pc, enrolled, config, projectsFile,
                   historyFile, favoritesFile, clock, calls, sessionVars>>

\* The main window of process p is closed: mainloop returns.
Quit(p) ==
    /\ procs[p].pc = "main"
    /\ procs' = [procs EXCEPT ![p].pc = "ended"]
    /\ lastCall' = [op |-> "quit", proc |-> p, raised |-> ""]
    /\ UNCHANGED <<users, current_user, pc, enrolled, configVars,
                   projectsFile, historyFile, favoritesFile, clock, calls,
                   sessionVars>>

\* The program is run again in the place of a process that has ended.
RunAgain(p) ==
    /\ procs[p].pc \in {"ended", "crashed"}
    /\ procs' = [procs EXCEPT ![p] = [pc |-> "not_started",
                                      user_count |-> 0,
                                      current_user |-> None]]
    /\ lastCall' = [op |-> "run", proc |-> p, raised |-> ""]
    /\ UNCHANGED <<users, current_user, pc, enrolled, configVars,
                   projectsFile, historyFile, favoritesFile, clock, calls,
                   sessionVars>>

InitRace ==
    /\ configFile = save_config(default_config)
    /\ config = default_config
    /\ projectsFile = AbsentFile
    /\ historyFile = AbsentFile
    /\ favoritesFile = AbsentFile
    /\ clock = 0
    /\ calls = 0
    /\ lastCall = [op |-> "none"]
    /\ users = <<>>
    /\ current_user = None
    /\ pc = "not_started"
    /\ enrolled = <<>>
    /\ procs = [p \in Procs |-> [pc |-> "not_started", user_count |-> 0,
                                 current_user |-> None]]
    /\ SessionIdle
    /\ schemas = NoSchemas

NextRace ==
    \/ \E p \in Procs : CountUsers(p)
    \/ \E p \in Procs : BootstrapOrDialog(p)
    \/ \E p \in Procs, username \in Usernames, password \in Passwords :
           DialogCreateUser(p, username, password)
    \/ \E p \in Procs, username \in Usernames, password \in Passwords :
           DialogLogin(p, username, password)
    \/ \E p \in Procs : DialogCancel(p)
    \/ \E p \in Procs : Quit(p)
    \/ \E p \in Procs : RunAgain(p)

SpecRace == InitRace /\ [][NextRace]_vars

\* The rows of the table that carry a username.
RowsOf(rows, username) == {i \in 1..Len(rows) : rows[i].username = username}

\* The processes that read a count of 0 and have been through their INSERT.
Bootstrappers ==
    {p \in Procs : /\ procs[p].user_count = 0
                   /\ procs[p].pc \in {"main", "crashed"}}

\* C17: when first-run processes that share the store each read a count of 0
\* and each run the bootstrap, then under every interleaving the store holds
\* exactly one record for admin, and never two.
C17_OneAdmin ==
    /\ Cardinality(RowsOf(users, "admin")) <= 1
    /\ Bootstrappers # {}
       => /\ Cardinality(RowsOf(users, "admin")) = 1
          /\ users[1] = admin_row

C17_Witness ==
    /\ Bootstrappers = Procs
    /\ Cardinality(RowsOf(users, "admin")) = 1

\* C18: a process whose INSERT of the admin is rejected takes it as "already
\* bootstrapped": its start-up completes, with no unhandled error.
C18_RejectionNotFatal ==
    \A p \in Procs : procs[p].pc # "crashed"

(***************************************************************************)
(* The history and favorites files under the query tab: files that are not *)
(* the list of entries the program writes, and writes that fail.           *)
(***************************************************************************)
\* A file whose bytes open(.., 'r') cannot decode: json.load raises
\* UnicodeDecodeError.
BinaryFile ==
    [exists |-> TRUE, parses |-> FALSE, shape |-> "bytes", doc |-> <<>>]

\* A file holding a JSON document that is no list: json.load returns the
\* value.
ValueFile(value) ==
    [exists |-> TRUE, parses |-> TRUE, shape |-> "value", doc |-> value]

\* load_history / load_favorites: the except clause names JSONDecodeError and
\* FileNotFoundError; anything else json.load raises leaves the method.
load_error(file) ==
    IF file.exists /\ file.shape = "bytes" THEN "UnicodeDecodeError" ELSE ""

\* [h for h in history if h['query'] != query] over what load_history
\* returned: the error it raises, if any.  A list is walked entry by entry;
\* a dict is walked by its keys and a str by its characters, which are
\* strings; other values cannot be walked.
comprehension_error(file) ==
    IF ~(file.exists /\ file.parses)
    THEN ""
    ELSE IF file.shape = "list"
    THEN IF \A i \in 1..Len(file.doc) : "query" \in DOMAIN file.doc[i]
         THEN ""
         ELSE IF \E i \in 1..Len(file.doc) :
                    /\ "query" \notin DOMAIN file.doc[i]
                    /\ file.doc[i].t # "dict"
         THEN "TypeError"
         ELSE "KeyError"
    ELSE IF file.doc.t = "dict" /\ DOMAIN file.doc.v = {}
    THEN ""
    ELSE IF file.doc.t = "str" /\ file.doc.v = ""
    THEN ""
    ELSE "TypeError"

\* with open(file, 'w') as f: json.dump(list, f).  `write` is what the file
\* system does: "ok"; "open_fails" (open raises OSError, the file is as it
\* was); "dump_fails" (the file is truncated by open and the write raises
\* OSError part of the way, leaving text json.load rejects).
write_file(old, new, write) ==
    IF write = "ok" THEN [file |-> new, raised |-> ""]
    ELSE IF write = "open_fails" THEN [file |-> old, raised |-> "OSError"]
    ELSE [file |-> GarbageFile, raised |-> "OSError"]

\* QueryHistoryManager.add_to_history(query, database) on a history file:
\* the file it leaves and the exception that reaches the caller.
add_to_history(file, query, database, timestamp, write) ==
    IF load_error(file) # ""
    THEN [file |-> file, raised |-> load_error(file)]
    ELSE IF comprehension_error(file) # ""
    THEN [file |-> file, raised |-> comprehension_error(file)]
    ELSE LET loaded == IF file.shape = "list" THEN load_history(file)
                                              ELSE <<>>
         IN  write_file(file,
                        save_history(NewHistory(loaded, query, database,
                                                timestamp)),
                        write)

\* QueryHistoryManager.load_favorites / save_favorites
load_favorites(file) ==
    IF file.exists /\ file.parses THEN file.doc ELSE <<>>

save_favorites(favorites) == ListFile(favorites)

\* add_favorite as it would be with names unique: an entry of the same name
\* is replaced.
add_favorite_unique_name(file, name, query, database, timestamp, write) ==
    IF load_error(file) # ""
    THEN [file |-> file, raised |-> load_error(file)]
    ELSE IF file.exists /\ file.parses /\ file.shape # "list"
    THEN [file |-> file, raised |-> "AttributeError"]
    ELSE LET other_name(favorite) == favorite.name # name
         IN  write_file(file,
                 save_favorites(Append(
                     SelectSeq(load_favorites(file), other_name),
                     [name |-> name, query |-> query,
                      database |-> database, created_at |-> timestamp])),
                 write)

\* QueryHistoryManager.add_favorite(name, query, database): favorites.append
\* exists on a list only, and does not look at the entries already there.
add_favorite(file, name, query, database, timestamp, write) ==
    IF load_error(file) # ""
    THEN [file |-> file, raised |-> load_error(file)]
    ELSE IF file.exists /\ file.parses /\ file.shape # "list"
    THEN [file |-> file, raised |-> "AttributeError"]
    ELSE write_file(file,
                    save_favorites(Append(load_favorites(file),
                        [name |-> name, query |-> query,
                         database |-> database, created_at |-> timestamp])),
                    write)

\* The Execute button as it would be with the query recorded when it is
\* dispatched, whether or not the statement succeeds.
RunQueryOnDispatch(query, engine, commit_ok, write) ==
    /\ calls < MaxCalls
    /\ calls' = calls + 1
    /\ IF NotConnected(connection)
       THEN /\ lastCall' = [op |-> "run_query", query |-> query,
                            write |-> write, file |-> historyFile,
                            other |-> favoritesFile,
                            statement |-> "Not connected to database",
                            history |-> "", status |-> "Query failed"]
            /\ UNCHANGED <<sent, commits, historyFile, clock>>
       ELSE LET r == execute_outcome(TRUE, engine, commit_ok)
                h == add_to_history(historyFile, query, current_database,
                                    clock + 1, write)
            IN  /\ sent' = sent + 1
                /\ commits' = (IF r.committed THEN commits + 1 ELSE commits)
                /\ IF r.raised # ""
                   THEN /\ historyFile' = h.file
                        /\ clock' = clock + 1
                        /\ lastCall' =
                               [op |-> "run_query", query |-> query,
                                write |-> write, file |-> historyFile,
                            other |-> favoritesFile,
                                statement |-> r.raised, history |-> "",
                                status |-> "Query failed"]
                   ELSE /\ historyFile' = h.file
                        /\ clock' = clock + 1
                        /\ lastCall' =
                               [op |-> "run_query", query |-> query,
                                write |-> write, file |-> historyFile,
                            other |-> favoritesFile,
                                statement |-> "executed",
                                history |-> h.raised,
                                status |-> IF h.raised = ""
                                           THEN "Query executed successfully"
                                           ELSE "Query failed"]
    /\ UNCHANGED <<connection, current_database, openConns, lostConns,
                   nextConn, schemas, session, configVars, projectsFile,
                   favoritesFile, loginVars>>

\* MySQLDatabaseManager.execute_query, the Execute button, with a non-empty
\* query text: DatabaseManager.execute_query(query), then add_to_history,
\* then the results and the status line; any exception of the three is
\* answered by the "Query Error" box and the status "Query failed".
RunQuery(query, engine, commit_ok, write) ==
    /\ calls < MaxCalls
    /\ calls' = calls + 1
    /\ IF NotConnected(connection)
       THEN /\ lastCall' = [op |-> "run_query", query |-> query,
                            write |-> write, file |-> historyFile,
                            other |-> favoritesFile,
                            statement |-> "Not connected to database",
                            history |-> "", status |-> "Query failed"]
            /\ UNCHANGED <<sent, commits, historyFile, clock>>
       ELSE LET r == execute_outcome(TRUE, engine, commit_ok)
                h == add_to_history(historyFile, query, current_database,
                                    clock + 1, write)
            IN  /\ sent' = sent + 1
                /\ commits' = (IF r.committed THEN commits + 1 ELSE commits)
                /\ IF r.raised # ""
                   THEN /\ UNCHANGED <<historyFile, clock>>
                        /\ lastCall' =
                               [op |-> "run_query", query |-> query,
                                write |-> write, file |-> historyFile,
                            other |-> favoritesFile,
                                statement |-> r.raised, history |-> "",
                                status |-> "Query failed"]
                   ELSE /\ historyFile' = h.file
                        /\ clock' = clock + 1
                        /\ lastCall' =
                               [op |-> "run_query", query |-> query,
                                write |-> write, file |-> historyFile,
                            other |-> favoritesFile,
                                statement |-> "executed",
                                history |-> h.raised,
                                status |-> IF h.raised = ""
                                           THEN "Query executed successfully"
                                           ELSE "Query failed"]
    /\ UNCHANGED <<connection, current_database, openConns, lostConns,
                   nextConn, schemas, session, configVars, projectsFile,
                   favoritesFile, loginVars>>

\* MySQLDatabaseManager.save_query, the Save button, with a non-empty query
\* text and a name: add_favorite, then the "Success" box.  Nothing catches an
\* exception of add_favorite: it leaves the handler and the box is not shown.
SaveQuery(name, query, write) ==
    /\ calls < MaxCalls
    /\ calls' = calls + 1
    /\ LET f == add_favorite(favoritesFile, name, query, current_database,
                             clock + 1, write)
       IN  /\ favoritesFile' = f.file
           /\ clock' = clock + 1
           /\ lastCall' = [op |-> "save_query", query |-> query,
                           name |-> name, write |-> write,
                           file |-> favoritesFile, other |-> historyFile,
                           raised |-> f.raised,
                           message |-> IF f.raised = "" THEN "Success"
                                       ELSE ""]
    /\ UNCHANGED <<historyFile, configVars, projectsFile, loginVars,
                   sessionVars>>

\* What query_history.json and query_favorites.json can hold at start: the
\* list an earlier run wrote, and contents that are no such list.
StoredValues == {PyInt("5"), PyDict(<<>>), PyDict("a" :> PyInt("1"))}

HistoryFiles ==
    {AbsentFile, GarbageFile, BinaryFile, ListFile(RecordedHistory(1)),
     ListFile(<<PyInt("1")>>)}
        \cup {ValueFile(v) : v \in StoredValues}

FavoritesFiles ==
    {AbsentFile,
     ListFile(<<[name |-> "first", query |-> 1, database |-> None,
                 created_at |-> 1]>>),
     ValueFile(PyDict(<<>>))}

\* The query tab exists once show_main_screen has connected to a database.
InitStore ==
    /\ historyFile \in HistoryFiles
    /\ favoritesFile \in FavoritesFiles
    /\ configFile = save_config(default_config)
    /\ config = default_config
    /\ projectsFile = AbsentFile
    /\ clock = 1
    /\ calls = 0
    /\ lastCall = [op |-> "none"]
    /\ LoginIdle
    /\ schemas = create_database_if_not_exists(NoSchemas, "school")
    /\ connection = 1
    /\ current_database = "school"
    /\ openConns = {1}
    /\ lostConns = {}
    /\ nextConn = 2
    /\ sent = 0
    /\ commits = 0
    /\ session = "connected"

NextStore ==
    \/ \E query \in {1, 2}, engine \in {"error", "rows", "done"},
          commit_ok \in BOOLEAN,
          write \in {"ok", "open_fails", "dump_fails"} :
           RunQuery(query, engine, commit_ok, write)
    \/ \E name \in {"first"}, query \in {1},
          write \in {"ok", "open_fails", "dump_fails"} :
           SaveQuery(name, query, write)
    \/ \E conn \in 1..MaxConnections : LoseConnection(conn)

SpecStore == InitStore /\ [][NextStore]_vars

\* Whether a file holds the list of well-formed entries the program writes.
IsEntryList(file) ==
    /\ file.exists /\ file.parses /\ file.shape = "list"
    /\ \A i \in 1..Len(file.doc) : "query" \in DOMAIN file.doc[i]

\* C19: add_to_history and add_favorite always succeed for their caller:
\* a failing write of the history or favorites file is swallowed, and a
\* statement that was executed is never reported as failed because of it.
C19_WriteFailureSwallowed ==
    /\ (/\ lastCall.op = "run_query"
        /\ lastCall.statement = "executed"
        /\ lastCall.write # "ok"
        /\ ~lastCall.file.exists \/ IsEntryList(lastCall.file))
       => /\ lastCall.history = ""
          /\ lastCall.status = "Query executed successfully"
    /\ (/\ lastCall.op = "save_query"
        /\ lastCall.write # "ok"
        /\ ~lastCall.file.exists \/ IsEntryList(lastCall.file))
       => lastCall.raised = ""

\* C20: whatever a corrupted history or favorites file holds (text that does
\* not parse, or JSON that is not a list of well-formed entries), the load
\* yields the empty list without raising, and the next add_to_history or
\* add_favorite succeeds and leaves the file a list of just the new entry.
C20_CorruptionSelfHeals ==
    /\ (/\ lastCall.op = "run_query"
        /\ lastCall.statement = "executed"
        /\ lastCall.write = "ok"
        /\ lastCall.file.shape \in {"text", "value", "list"}
        /\ ~IsEntryList(lastCall.file))
       => /\ lastCall.history = ""
          /\ IsEntryList(historyFile)
          /\ Len(historyFile.doc) = 1
          /\ historyFile.doc[1].query = lastCall.query
    /\ (/\ lastCall.op = "save_query"
        /\ lastCall.write = "ok"
        /\ lastCall.file.shape \in {"text", "value", "list"}
        /\ ~IsEntryList(lastCall.file))
       => /\ lastCall.raised = ""
          /\ IsEntryList(favoritesFile)
          /\ Len(favoritesFile.doc) = 1
          /\ favoritesFile.doc[1].query = lastCall.query

\* C21: authenticate returns True exactly when the store holds a record for
\* the username whose stored hash is the hash of the password; for a username
\* that is not there or a password that is not the account's it returns
\* False; it leaves the store as it was.
C21_Authenticate ==
    lastCall.op = "authenticate"
    => /\ lastCall.returned
              = (/\ lastCall.username \in DOMAIN lastCall.before
                 /\ lastCall.before[lastCall.username].password_hash
                        = sha256(lastCall.password))
       /\ lastCall.username \notin DOMAIN lastCall.before
          => ~lastCall.returned
       /\ (/\ lastCall.username \in DOMAIN enrolled
           /\ lastCall.password # enrolled[lastCall.username])
          => ~lastCall.returned
       /\ users = lastCall.before

C21_Witness ==
    /\ lastCall.op = "authenticate"
    /\ lastCall.username \in DOMAIN users
    /\ lastCall.password # enrolled[lastCall.username]
    /\ ~lastCall.returned

\* C22: the current_user of the Config is the last authenticated username:
\* once a login as u has been saved, the next load_config returns a Config
\* whose current_user is u.
C22_CurrentUserPersisted ==
    (/\ lastCall.op = "authenticate_user"
     /\ lastCall.file.exists /\ lastCall.file.parses
     /\ lastCall.file.doc.t = "object"
     /\ "current_user" \in DOMAIN lastCall.file.doc.v
     /\ lastCall.file.doc.v["current_user"].t = "string")
    => /\ "current_user" \in DOMAIN config.v
       /\ config.v["current_user"]
              = json_load(lastCall.file.doc.v["current_user"])

(***************************************************************************)
(* Recent projects, created and opened.  The server holds the databases of *)
(* the projects.                                                           *)
(***************************************************************************)
\* MySQLDatabaseManager.open_recent_project with the entry at `index`
\* selected: the connection settings of the entry go into the Config in
\* memory, a new DatabaseManager takes the place of the old one (whose
\* connection, if any, is not closed), and show_main_screen connects to the
\* entry's database and builds the tabs.  projects.json is not written.
OpenRecentProject(index, ok, engine) ==
    LET projects == load_projects(projectsFile)
        project == projects[index]
    IN  /\ index \in 1..Len(projects)
        /\ nextConn <= MaxConnections
        /\ sent < MaxStatements
        /\ config # NotLoaded
        /\ ok => project.database \in DOMAIN schemas
        /\ config' = [config EXCEPT !.v["mysql"].v =
               [@ EXCEPT !["host"] = PyStr(project.host),
                         !["port"] = PyInt(ToString(project.port)),
                         !["username"] = PyStr(project.username),
                         !["password"] = PyStr(project.password)]]
        /\ IF ok
           THEN /\ connection' = nextConn
                /\ current_database' = project.database
                /\ openConns' = openConns \cup {nextConn}
                /\ nextConn' = nextConn + 1
                /\ session' = "connected"
                /\ sent' = IF engine = "rows"
                              /\ schemas[project.database].tables # {}
                           THEN sent + 3
                           ELSE sent + 2
           ELSE /\ connection' = NoConnection
                /\ current_database' = None
                /\ session' = "never"
                /\ UNCHANGED <<openConns, nextConn, sent>>
        /\ lastCall' = [op |-> "open_recent_project", index |-> index,
                        database |-> project.database, connected |-> ok,
                        before |-> projects]
        /\ UNCHANGED <<configFile, projectsFile, historyFile, favoritesFile,
                       clock, calls, lostConns, commits, schemas, loginVars>>

InitRecent ==
    /\ \E n \in {0, 2, 3} :
          /\ projectsFile \in (IF n = 0 THEN {AbsentFile}
                                        ELSE {ListFile(RecordedProjects(n))})
          /\ clock = n
    /\ configFile = save_config(default_config)
    /\ config = default_config
    /\ historyFile = AbsentFile
    /\ favoritesFile = AbsentFile
    /\ calls = 0
    /\ lastCall = [op |-> "none"]
    /\ LoginIdle
    /\ SessionIdle
    /\ schemas = [d \in {1, 2, 3} |-> EmptyDatabase]

NextRecent ==
    \/ \E name \in {"demo", "shop"}, database \in {1, 2, 3} :
           AddToRecentProjects(name, database, "localhost", 3306)
    \/ \E index \in 1..RECENT_LIMIT, ok \in BOOLEAN,
          engine \in {"error", "rows"} :
           OpenRecentProject(index, ok, engine)

SpecRecent == InitRecent /\ [][NextRecent]_vars

\* C23: the persisted project list is ordered most recently opened first:
\* after a project is created, and after a recent project is opened, that
\* project is at index 0.
C23_LastOpenedFirst ==
    /\ lastCall.op = "add_to_recent_projects"
       => recent_projects[1].database = lastCall.database
    /\ (lastCall.op = "open_recent_project" /\ lastCall.connected)
       => recent_projects[1].database = lastCall.database

\* C24 as stated: every run of the Execute button that hands a query to
\* DatabaseManager.execute_query records that query in the history, also when
\* the statement fails.
C24_RecordedOnDispatch ==
    (/\ lastCall.op = "run_query"
     /\ lastCall.write = "ok"
     /\ ~lastCall.file.exists \/ IsEntryList(lastCall.file))
    => /\ IsEntryList(historyFile)
       /\ Len(historyFile.doc) >= 1
       /\ historyFile.doc[1].query = lastCall.query

\* C24: a query is recorded in the history when its statement has succeeded:
\* after a run of the Execute button whose statement was executed the query is
\* the first entry of the history, and a run whose statement failed (engine
\* error, failed commit, no connection) leaves the history file as it was.
C24_RecordedOnSuccess ==
    /\ (/\ lastCall.op = "run_query"
        /\ lastCall.statement = "executed"
        /\ lastCall.write = "ok"
        /\ ~lastCall.file.exists \/ IsEntryList(lastCall.file))
       => /\ IsEntryList(historyFile)
          /\ Len(historyFile.doc) >= 1
          /\ historyFile.doc[1].query = lastCall.query
    /\ (/\ lastCall.op = "run_query"
        /\ lastCall.statement # "executed")
       => historyFile = lastCall.file

C24_Witness ==
    /\ lastCall.op = "run_query"
    /\ lastCall.statement = "Error"
    /\ lastCall.write = "ok"
    /\ IsEntryList(lastCall.file)
    /\ \A i \in 1..Len(historyFile.doc) :
           historyFile.doc[i].query # lastCall.query

\* C26: add_favorite appends exactly one entry to the end of the favorites
\* list and keeps every entry that was there, in place, also one of the same
\* name; it leaves the history file as it was, and add_to_history leaves the
\* favorites file as it was.
C26_FavoriteAppended ==
    /\ (/\ lastCall.op = "save_query"
        /\ lastCall.raised = "")
       => LET before == load_favorites(lastCall.file)
          IN  /\ favoritesFile.exists /\ favoritesFile.parses
              /\ favoritesFile.shape = "list"
              /\ Len(favoritesFile.doc) = Len(before) + 1
              /\ \A i \in 1..Len(before) : favoritesFile.doc[i] = before[i]
              /\ favoritesFile.doc[Len(before) + 1].name = lastCall.name
              /\ favoritesFile.doc[Len(before) + 1].query = lastCall.query
    /\ lastCall.op = "save_query" => historyFile = lastCall.other
    /\ lastCall.op = "run_query" => favoritesFile = lastCall.other

C26_Witness ==
    /\ lastCall.op = "save_query"
    /\ lastCall.raised = ""
    /\ IsEntryList(lastCall.file)
    /\ \E i \in 1..Len(lastCall.file.doc) :
           lastCall.file.doc[i].name = lastCall.name
    /\ Len(favoritesFile.doc) = Len(lastCall.file.doc) + 1

\* C25: an execute_query call that reaches the engine sends exactly one
\* statement; when the engine reports an error the error reaches the caller,
\* nothing is committed, the cursor is closed, and the manager's connection
\* and active database are as they were.
C25_OneStatementNoRetry ==
    lastCall.op = "execute_query"
    => /\ lastCall.engine # "none" => sent = lastCall.sent_before + 1
       /\ lastCall.engine = "none" => sent = lastCall.sent_before
       /\ lastCall.engine = "error"
          => /\ lastCall.raised = "Error"
             /\ lastCall.keys = {}
             /\ commits = lastCall.commits_before
             /\ lastCall.cursor = "closed"
       /\ connection = lastCall.connection_before
       /\ current_database = lastCall.database_before

C25_Witness ==
    /\ lastCall.op = "execute_query"
    /\ lastCall.engine = "error"
    /\ lastCall.raised = "Error"
    /\ sent = lastCall.sent_before + 1
    /\ lastCall.commits_before > 0

\* The methods of DatabaseManager, by the name their step leaves in lastCall.
ManagerCalls ==
    {"connect", "disconnect", "execute_query", "create_database",
     "create_sample_table", "get_databases", "get_tables",
     "get_table_structure"}

\* C29: the active database is set only while the manager holds a connection
\* object; among the methods of DatabaseManager only a successful connect and
\* disconnect change current_database, and a failed connect leaves connection
\* and current_database as they were.
C29_ActiveDatabase ==
    /\ [](connection = NoConnection => current_database = None)
    /\ [][/\ (/\ lastCall'.op \in ManagerCalls
              /\ current_database' # current_database)
             => \/ lastCall'.op = "connect" /\ lastCall'.returned
                \/ lastCall'.op = "disconnect"
          /\ (lastCall'.op = "connect" /\ ~lastCall'.returned)
             => /\ connection' = connection
                /\ current_database' = current_database]_vars

C29_Witness ==
    /\ lastCall.op = "connect"
    /\ ~lastCall.returned
    /\ lastCall.database = None
    /\ connection # NoConnection
    /\ current_database # None

\* C30: the main interface is built only after authentication: a run is at
\* the main interface only by authenticate_user having found the store empty
\* and created the default admin, or by the login dialog having returned a
\* username for which authenticate returned True; a cancelled login ends the
\* run and a failed login stays in the dialog.
C30_MainAfterAuthentication ==
    /\ pc = "main"
       => \/ /\ lastCall.op = "authenticate_user"
             /\ lastCall.user_count = 0
             /\ lastCall.before = <<>>
             /\ "admin" \in DOMAIN users
          \/ /\ lastCall.op = "authenticate"
             /\ lastCall.returned
             /\ authenticate(users, lastCall.username, lastCall.password)
             /\ current_user = lastCall.username
    /\ lastCall.op = "cancel" => pc = "ended"
    /\ (lastCall.op = "authenticate" /\ ~lastCall.returned)
       => pc = "login_dialog"

C30_Witness ==
    /\ pc = "main"
    /\ lastCall.op = "authenticate"
    /\ lastCall.username = "alice"
    /\ current_user = "alice"

\* A value of another type than the schema's value for the key.
IncompatibleType(s, key, value) == value.t # default_config.v[s].v[key].t

AddToHistoryLoad(p, query, database) ==
    /\ calls < MaxCalls
    /\ procs[p].pc = "idle"
    /\ procs' = [procs EXCEPT ![p] =
                    [pc |-> "loaded", history |-> load_history(historyFile),
                     query |-> query, database |-> database,
                     timestamp |-> clock + 1]]
    /\ clock' = clock + 1
    /\ calls' = calls + 1
    /\ lastCall' = [op |-> "load_history", proc |-> p]
    /\ UNCHANGED <<historyFile, users, current_user, pc, enrolled, configVars,
                   projectsFile, favoritesFile, sessionVars>>

\* The second half as it would be with the new entry put on top of the file
\* as it is at the save, without the filter.
AddToHistorySaveOnTop(p) ==
    /\ procs[p].pc = "loaded"
    /\ historyFile' = save_history(
           NewHistoryNoDedup(load_history(historyFile), procs[p].query,
                             procs[p].database, procs[p].timestamp))
    /\ procs' = [procs EXCEPT ![p] =
                    [pc |-> "idle", history |-> <<>>, query |-> 0,
                     database |-> None, timestamp |-> 0]]
    /\ lastCall' = [op |-> "save_history", proc |-> p,
                    query |-> procs[p].query,
                    loaded |-> procs[p].history,
                    before |-> load_history(historyFile),
                    written |-> NewHistory(procs[p].history, procs[p].query,
                                           procs[p].database,
                                           procs[p].timestamp)]
    /\ UNCHANGED <<users, current_user, pc, enrolled, configVars,
                   projectsFile, favoritesFile, clock, calls, sessionVars>>

\* add_to_history, second half: the filter, insert and cut on the list that
\* was loaded, then save_history.
AddToHistorySave(p) ==
    /\ procs[p].pc = "loaded"
    /\ historyFile' = save_history(
           NewHistory(procs[p].history, procs[p].query, procs[p].database,
                      procs[p].timestamp))
    /\ procs' = [procs EXCEPT ![p] =
                    [pc |-> "idle", history |-> <<>>, query |-> 0,
                     database |-> None, timestamp |-> 0]]
    /\ lastCall' = [op |-> "save_history", proc |-> p,
                    query |-> procs[p].query,
                    loaded |-> procs[p].history,
                    before |-> load_history(historyFile),
                    written |-> NewHistory(procs[p].history, procs[p].query,
                                           procs[p].database,
                                           procs[p].timestamp)]
    /\ UNCHANGED <<users, current_user, pc, enrolled, configVars,
                   projectsFile, favoritesFile, clock, calls, sessionVars>>

InitShared ==
    /\ \E n \in {0, 2, HISTORY_LIMIT} :
          /\ historyFile = (IF n = 0 THEN AbsentFile
                                     ELSE ListFile(RecordedHistory(n)))
          /\ clock = n
    /\ calls = 0
    /\ lastCall = [op |-> "none"]
    /\ users = <<>>
    /\ current_user = None
    /\ pc = "not_started"
    /\ enrolled = <<>>
    /\ procs = [p \in Procs |-> [pc |-> "idle", history |-> <<>>,
                                 query |-> 0, database |-> None,
                                 timestamp |-> 0]]
    /\ SessionIdle
    /\ schemas = NoSchemas
    /\ favoritesFile = AbsentFile
    /\ configFile = save_config(default_config)
    /\ config = default_config
    /\ projectsFile = AbsentFile

NextShared ==
    \/ \E p \in Procs, query \in {1, HISTORY_LIMIT + 1} :
           AddToHistoryLoad(p, query, None)
    \/ \E p \in Procs : AddToHistorySave(p)

SpecShared == InitShared /\ [][NextShared]_vars

\* C28: with two instances interleaving the load and the save of their
\* add_to_history calls, the persisted history has at most 100 entries and no
\* two entries with the same query text in every state, and after a save it
\* is the list that writer built from what it had loaded, its query first.
C28_LastWriterWins ==
    /\ Len(history) <= 100
    /\ \A i, j \in 1..Len(history) :
           history[i].query = history[j].query => i = j
    /\ lastCall.op = "save_history"
       => /\ history = lastCall.written
          /\ history[1].query = lastCall.query
          /\ QueriesOf(history)
                 \subseteq QueriesOf(lastCall.loaded) \cup {lastCall.query}

\* An entry the other instance saved between this writer's load and its save
\* is gone, though the list had room for it.
C28_Witness ==
    /\ lastCall.op = "save_history"
    /\ Len(lastCall.before) >= 1
    /\ lastCall.before[1].query \notin QueriesOf(lastCall.loaded)
    /\ lastCall.before[1].query \notin QueriesOf(history)
    /\ Len(history) < 100

====
